---------------------------- MODULE Spec2Model ----------------------------
(***************************************************************************)
(* Model of the Mullvad TAP adapter discovery and removal logic            *)
(* (Context::getAdapter, Context::DeleteOldMullvadAdapter,                 *)
(* Context::FindMullvadAdapter, GetTapAdapters), of the NSIS plugin        *)
(* boundary of driverlogic.cpp, and of the Android SettingsListener.       *)
(*                                                                         *)
(* Wide strings that the code compares character by character (hardware    *)
(* IDs, aliases) are sequences of UTF-16 code units.  Error texts and      *)
(* descriptions, which the code only passes on, are TLA+ strings.          *)
(***************************************************************************)
EXTENDS Integers, Sequences, FiniteSets, TLC

\* ------------------------------------------------------------------ bounds

\* Largest number of present network-class devices in the OS device list.
MaxDevices == 2

\* Largest number of candidate adapters handed to FindMullvadAdapter.
MaxCandidates == 3

\* Largest number of plugin calls the installer makes in one run.
MaxCalls == 3

\* Number of distinct settings values the daemon can report.
MaxSettings == 3

\* --------------------------------------------------------- wide strings

\* L"tapmullvad0901"
TAP_HARDWARE_ID ==
    <<116, 97, 112, 109, 117, 108, 108, 118, 97, 100, 48, 57, 48, 49>>

\* L"tap0901"
DEPRECATED_TAP_HARDWARE_ID == <<116, 97, 112, 48, 57, 48, 49>>

\* L"TAP0901": a hardware ID that differs from the deprecated one in case only
UPPERCASE_TAP_HARDWARE_ID == <<84, 65, 80, 48, 57, 48, 49>>

\* L"Mullvad"
baseAlias == <<77, 117, 108, 108, 118, 97, 100>>

\* L"MULLVAD"
AliasUpper == <<77, 85, 76, 76, 86, 65, 68>>

\* L"mullvad-0"
AliasDash0 == <<109, 117, 108, 108, 118, 97, 100, 45, 48>>

\* L"Mullvad-1"
AliasDash1 == <<77, 117, 108, 108, 118, 97, 100, 45, 49>>

\* L"MULLVAD-2"
AliasDash2 == <<77, 85, 76, 76, 86, 65, 68, 45, 50>>

\* L"Mullvad-9"
AliasDash9 == <<77, 117, 108, 108, 118, 97, 100, 45, 57>>

\* L"Mullvad-10"
AliasDash10 == <<77, 117, 108, 108, 118, 97, 100, 45, 49, 48>>

\* L"Mullvad-"
AliasDashOnly == <<77, 117, 108, 108, 118, 97, 100, 45>>

\* L"Other"
AliasOther == <<79, 116, 104, 101, 114>>

\* towlower on the code units the model uses (A..Z -> a..z)
ToLower(c) == IF c >= 65 /\ c <= 90 THEN c + 32 ELSE c

\* The code unit at position i of the NUL-terminated string s
CharAt(s, i) == IF i <= Len(s) THEN s[i] ELSE 0

RECURSIVE CompareFrom(_, _, _, _)
\* Compares two NUL-terminated strings from position i on, after mapping
\* each code unit through fold; -1, 0 or 1 as the C comparison functions.
CompareFrom(a, b, i, foldCase) ==
    LET ca == IF foldCase THEN ToLower(CharAt(a, i)) ELSE CharAt(a, i)
        cb == IF foldCase THEN ToLower(CharAt(b, i)) ELSE CharAt(b, i)
    IN  IF ca < cb THEN -1
        ELSE IF ca > cb THEN 1
        ELSE IF ca = 0 THEN 0
        ELSE CompareFrom(a, b, i + 1, foldCase)

\* wcscmp
wcscmp(a, b) == CompareFrom(a, b, 1, FALSE)

\* _wcsicmp
wcsicmp(a, b) == CompareFrom(a, b, 1, TRUE)

\* operator<< of std::wstringstream for an int in 0..9: one decimal digit
FormatDigit(i) == <<48 + i>>

\* ss << baseAlias << L"-" << i
SuffixedAlias(i) == baseAlias \o <<45>> \o FormatDigit(i)

\* ------------------------------------------------------------- adapters

\* std::optional
nullopt(empty) == [has_value |-> FALSE, value |-> empty]

Some(v) == [has_value |-> TRUE, value |-> v]

\* A NetworkAdapter that no device has: what an empty optional holds, and
\* what reading through the end iterator of an empty set can yield.
NullAdapter ==
    [guid |-> 0, name |-> "", alias |-> <<>>, deviceInstanceId |-> 0]

\* Context::NetworkAdapter(guid, name, alias, deviceInstanceId)
NetworkAdapter(guid, name, alias, deviceInstanceId) ==
    [guid |-> guid, name |-> name, alias |-> alias,
     deviceInstanceId |-> deviceInstanceId]

\* NetworkAdapter::operator<, the ordering of std::set<NetworkAdapter>
AdapterLess(a, b) == a.guid < b.guid

\* std::set::emplace: the element is inserted unless an equivalent one
\* (neither less than the other) is already there.
Emplace(adapters, adapter) ==
    IF \E a \in adapters : ~AdapterLess(a, adapter) /\ ~AdapterLess(adapter, a)
    THEN adapters
    ELSE adapters \cup {adapter}

\* *set.begin() of a non-empty set: its least element
SetBegin(adapters) ==
    CHOOSE a \in adapters : \A b \in adapters : ~AdapterLess(b, a)

\* The adapters of the set in iteration order
RECURSIVE InOrder(_)
InOrder(adapters) ==
    IF adapters = {} THEN <<>>
    ELSE <<SetBegin(adapters)>> \o InOrder(adapters \ {SetBegin(adapters)})

\* std::find_if over the sequence: the first element satisfying the
\* predicate, or end() (nullopt)
RECURSIVE FindFirst(_, _)
FindFirst(seq, alias) ==
    IF seq = <<>> THEN nullopt(NullAdapter)
    ELSE IF 0 = wcsicmp(Head(seq).alias, alias) THEN Some(Head(seq))
    ELSE FindFirst(Tail(seq), alias)

\* The lambda findByAlias of FindMullvadAdapter
findByAlias(adapters, alias) == FindFirst(InOrder(adapters), alias)

\* The loop bounds of "for (auto i = 0; i < 10; ++i)", starting one late
SuffixRangeFromOne == 1 .. 9

\* The values of i in "for (auto i = 0; i < 10; ++i)"
SuffixRange == 0 .. 9

RECURSIVE ProbeSuffixes(_, _)
\* The suffix loop of FindMullvadAdapter from index i on
ProbeSuffixes(tapAdapters, i) ==
    IF i \notin SuffixRange THEN nullopt(NullAdapter)
    ELSE LET mullvadAdapter == findByAlias(tapAdapters, SuffixedAlias(i))
         IN  IF mullvadAdapter.has_value THEN mullvadAdapter
             ELSE ProbeSuffixes(tapAdapters, i + 1)

\* The least element of a non-empty set of integers
Least(S) == CHOOSE x \in S : \A y \in S : x <= y

\* A matcher that settles for any adapter when no alias matches
FindAnyAdapter(tapAdapters) ==
    IF tapAdapters = {} THEN nullopt(NullAdapter)
    ELSE Some(SetBegin(tapAdapters))

\* Context::FindMullvadAdapter
FindMullvadAdapter(tapAdapters) ==
    IF tapAdapters = {} THEN nullopt(NullAdapter)
    ELSE LET mullvadAdapter == findByAlias(tapAdapters, baseAlias)
         IN  IF mullvadAdapter.has_value THEN mullvadAdapter
             ELSE IF SuffixRange = {} THEN nullopt(NullAdapter)
             ELSE ProbeSuffixes(tapAdapters, Least(SuffixRange))


\* ------------------------------------------------------- the OS devices

\* What can go wrong when a NetworkAdapter is built from a device
ConstructFaults ==
    {"GetNetCfgInstanceId", "Guid::FromString", "DEVPKEY_Device_DriverDesc",
     "getConnectionName", "GetDeviceInstanceId"}

Faults == {"none"} \cup ConstructFaults

\* Devices whose hardware ID is absent, or differs from both TAP IDs
UnrelatedKinds ==
    {[hardwareId |-> nullopt(<<>>), alias |-> AliasOther, fault |-> "none"],
     [hardwareId |-> Some(UPPERCASE_TAP_HARDWARE_ID), alias |-> baseAlias,
      fault |-> "none"]}

\* Devices of the current driver
CurrentKinds ==
    {[hardwareId |-> Some(TAP_HARDWARE_ID), alias |-> baseAlias, fault |-> f] :
        f \in Faults}

\* Devices of the deprecated driver
LegacyKinds ==
    {[hardwareId |-> Some(DEPRECATED_TAP_HARDWARE_ID), alias |-> a, fault |-> f] :
        a \in {AliasUpper, AliasDash1, AliasOther}, f \in Faults}

DeviceKinds == UnrelatedKinds \cup CurrentKinds \cup LegacyKinds

\* The device kinds of the installer runs
InstallerKinds ==
    {k \in CurrentKinds \cup LegacyKinds :
        \/ k.fault = "none" /\ k.alias \in {baseAlias, AliasUpper, AliasOther}
        \/ k.fault = "GetNetCfgInstanceId" /\ k.alias = AliasOther}

\* The i-th present device of the class list.  The NetCfgInstanceId and the
\* device instance id are unique on a system; the i-th device has the i-th.
Device(i, kind) ==
    [hardwareId |-> kind.hardwareId,
     netCfgInstanceId |-> i,
     driverDesc |-> "TAP-Windows Adapter V9",
     connectionName |-> kind.alias,
     deviceInstanceId |-> 100 + i,
     fault |-> kind.fault]

\* The device lists of at most MaxDevices devices of the given kinds
DeviceLists(kinds) ==
    UNION {{[i \in 1 .. n |-> Device(i, f[i])] : f \in [1 .. n -> kinds]} :
              n \in 0 .. MaxDevices}

VARIABLES
    devices,              \* the network-class devices of the system
    removed,              \* the devices SetupDiRemoveDevice has removed
    op,                   \* the Context operation in progress
    pc,                   \* its position
    tapHardwareId,        \* GetTapAdapters: the parameter
    handles,              \* the device-list handles acquired in this call
    classDevsCalls,       \* the SetupDiGetClassDevs calls made in this call
    devInfo,              \* the device list behind the open handle
    memberIndex,          \* the loop index
    adapters,             \* GetTapAdapters: the local set
    tapAdapters,          \* the caller's set (added / tapAdapters)
    mullvadAdapter,       \* DeleteOldMullvadAdapter: the matcher's result
    mullvadGuid,          \* DeleteOldMullvadAdapter: its guid
    numRemainingAdapters, \* DeleteOldMullvadAdapter: the counter
    removalLog,           \* the devices passed to SetupDiRemoveDevice
    status,               \* running, returned, thrown or crashed
    what,                 \* the text of the exception thrown
    retAdapter,           \* the value getAdapter returned
    retDeletion,          \* the value DeleteOldMullvadAdapter returned
    g_context,            \* driverlogic.cpp: the global
    moduleRefs,           \* the extra references PinDll took on the module
    stack,                \* the NSIS stack, the top last
    nsis,                 \* the plugin function in progress
    history,              \* the plugin calls completed, with their status
    asyncDaemon,          \* SettingsListener: the daemon is available
    daemon,               \* the lateinit field
    onSettingsChange,     \* the daemon's callback
    daemonSettings,       \* the settings the daemon holds
    settings,             \* the listener's field
    setUpPc,              \* the position of the setUp coroutine
    setUpJob,             \* the state of the coroutine's Job
    destroyPc             \* the position of onDestroy

osVars == <<devices, removed>>

ctxVars ==
    <<op, pc, tapHardwareId, handles, classDevsCalls, devInfo, memberIndex,
      adapters, tapAdapters, mullvadAdapter, mullvadGuid,
      numRemainingAdapters, removalLog, status, what, retAdapter, retDeletion>>

nsisVars == <<g_context, moduleRefs, stack, nsis, history>>

listenerVars ==
    <<asyncDaemon, daemon, onSettingsChange, daemonSettings, settings,
      setUpPc, setUpJob, destroyPc>>

vars == <<osVars, ctxVars, nsisVars, listenerVars>>

\* No Context operation has been called
CtxInit ==
    /\ op = "none"
    /\ pc = "idle"
    /\ tapHardwareId = <<>>
    /\ handles = <<>>
    /\ classDevsCalls = 0
    /\ devInfo = <<>>
    /\ memberIndex = 0
    /\ adapters = {}
    /\ tapAdapters = {}
    /\ mullvadAdapter = nullopt(NullAdapter)
    /\ mullvadGuid = 0
    /\ numRemainingAdapters = 0
    /\ removalLog = <<>>
    /\ status = "none"
    /\ what = ""
    /\ retAdapter = NullAdapter
    /\ retDeletion = "none"

\* Context *g_context = nullptr; nothing pushed, nothing called
NsisInit ==
    /\ g_context = "nullptr"
    /\ moduleRefs = 0
    /\ stack = <<>>
    /\ nsis = "idle"
    /\ history = <<>>

\* No SettingsListener exists
ListenerIdle ==
    /\ asyncDaemon = FALSE
    /\ daemon = "uninitialized"
    /\ onSettingsChange = "null"
    /\ daemonSettings = 0
    /\ settings = 0
    /\ setUpPc = "none"
    /\ setUpJob = "none"
    /\ destroyPc = "none"

\* The indices of the present devices, in the order of the class list
RECURSIVE PresentFrom(_)
PresentFrom(i) ==
    IF i > Len(devices) THEN <<>>
    ELSE (IF i \in removed THEN <<>> ELSE <<i>>) \o PresentFrom(i + 1)

\* SetupDiGetClassDevs(&GUID_DEVCLASS_NET, DIGCF_PRESENT): the list made
Present == PresentFrom(1)

\* SetupDiDestroyDeviceInfoList on handle h
SetupDiDestroyDeviceInfoList(hs, h) ==
    [hs EXCEPT ![h] = IF @ = "open" THEN "closed" ELSE "closed twice"]

\* A scope exit that runs no destructor
ScopeLeak(hs) == hs

\* common::memory::ScopeDestructor at scope exit: the lambda registered
\* for the handle acquired last runs, on return and on unwinding alike.
ScopeDestructor(hs) == SetupDiDestroyDeviceInfoList(hs, Len(hs))

\* The device the loop is at
CurrentDevice == devices[devInfo[memberIndex + 1]]

\* The hardware-ID test that ignores case
HardwareIdMatchesIgnoringCase(hardwareId, wanted) ==
    hardwareId.has_value /\ wcsicmp(hardwareId.value, wanted) = 0

\* hardwareId.has_value() && wcscmp(hardwareId.value(), wanted) == 0
HardwareIdMatches(hardwareId, wanted) ==
    hardwareId.has_value /\ wcscmp(hardwareId.value, wanted) = 0

\* An exception leaves the Context operation
Throw(text) ==
    /\ status' = "thrown"
    /\ what' = text
    /\ pc' = "done"

\* The start of a Context operation: its locals are fresh
Enter(operation, hardwareId) ==
    /\ op' = operation
    /\ pc' = "GetTapAdapters:acquire"
    /\ tapHardwareId' = hardwareId
    /\ handles' = <<>>
    /\ classDevsCalls' = 0
    /\ devInfo' = <<>>
    /\ memberIndex' = 0
    /\ adapters' = {}
    /\ tapAdapters' = {}
    /\ mullvadAdapter' = nullopt(NullAdapter)
    /\ mullvadGuid' = 0
    /\ numRemainingAdapters' = 0
    /\ removalLog' = <<>>
    /\ status' = "running"
    /\ what' = ""
    /\ retAdapter' = NullAdapter
    /\ retDeletion' = "none"

\* ------------------------------------------------------- GetTapAdapters

\* SetupDiGetClassDevs fails
GtaAcquireFail ==
    /\ pc = "GetTapAdapters:acquire"
    /\ classDevsCalls' = classDevsCalls + 1
    /\ Throw("SetupDiGetClassDevs() failed")
    /\ UNCHANGED <<osVars, nsisVars, listenerVars, op, tapHardwareId, handles,
                   devInfo, memberIndex, adapters, tapAdapters, mullvadAdapter,
                   mullvadGuid, numRemainingAdapters, removalLog, retAdapter,
                   retDeletion>>

\* SetupDiGetClassDevs succeeds; the ScopeDestructor is armed
GtaAcquire ==
    /\ pc = "GetTapAdapters:acquire"
    /\ classDevsCalls' = classDevsCalls + 1
    /\ handles' = Append(handles, "open")
    /\ devInfo' = Present
    /\ memberIndex' = 0
    /\ adapters' = {}
    /\ pc' = "GetTapAdapters:loop"
    /\ UNCHANGED <<osVars, nsisVars, listenerVars, op, tapHardwareId,
                   tapAdapters, mullvadAdapter, mullvadGuid,
                   numRemainingAdapters, removalLog, status, what, retAdapter,
                   retDeletion>>

\* An exception leaves GetTapAdapters: its locals and the handle go
GtaThrow(text) ==
    /\ Throw(text)
    /\ handles' = ScopeDestructor(handles)
    /\ devInfo' = <<>>
    /\ adapters' = {}
    /\ UNCHANGED <<osVars, nsisVars, listenerVars, op, tapHardwareId,
                   classDevsCalls, memberIndex, tapAdapters, mullvadAdapter,
                   mullvadGuid, numRemainingAdapters, removalLog, retAdapter,
                   retDeletion>>

\* SetupDiEnumDeviceInfo fails with an error other than ERROR_NO_MORE_ITEMS
GtaEnumFail ==
    /\ pc = "GetTapAdapters:loop"
    /\ GtaThrow("SetupDiEnumDeviceInfo() failed while enumerating network adapters")

\* ERROR_NO_MORE_ITEMS: the loop ends and GetTapAdapters returns its set
GtaNoMoreItems ==
    /\ pc = "GetTapAdapters:loop"
    /\ memberIndex >= Len(devInfo)
    /\ tapAdapters' = adapters
    /\ adapters' = {}
    /\ handles' = ScopeDestructor(handles)
    /\ devInfo' = <<>>
    /\ pc' = IF op = "getAdapter" THEN "getAdapter:check"
             ELSE "DeleteOldMullvadAdapter:find"
    /\ UNCHANGED <<osVars, nsisVars, listenerVars, op, tapHardwareId,
                   classDevsCalls, memberIndex, mullvadAdapter, mullvadGuid,
                   numRemainingAdapters, removalLog, status, what, retAdapter,
                   retDeletion>>

\* GetDeviceRegistryStringProperty throws: an error other than
\* ERROR_INSUFFICIENT_BUFFER and ERROR_INVALID_DATA, or the read fails
GtaHardwareIdFail ==
    /\ pc = "GetTapAdapters:loop"
    /\ memberIndex < Len(devInfo)
    /\ \E text \in {"SetupDiGetDeviceRegistryPropertyW",
                    "Failed to read device property"} : GtaThrow(text)

\* The hardware ID is absent or is not the one wanted: continue
GtaSkip ==
    /\ pc = "GetTapAdapters:loop"
    /\ memberIndex < Len(devInfo)
    /\ ~HardwareIdMatches(CurrentDevice.hardwareId, tapHardwareId)
    /\ memberIndex' = memberIndex + 1
    /\ UNCHANGED <<osVars, nsisVars, listenerVars, op, pc, tapHardwareId,
                   handles, classDevsCalls, devInfo, adapters, tapAdapters,
                   mullvadAdapter, mullvadGuid, numRemainingAdapters,
                   removalLog, status, what, retAdapter, retDeletion>>

\* The try block: the adapter is built and inserted, or an exception of
\* one of the four queries or of the GUID parse is caught and logged
GtaConstruct ==
    /\ pc = "GetTapAdapters:loop"
    /\ memberIndex < Len(devInfo)
    /\ HardwareIdMatches(CurrentDevice.hardwareId, tapHardwareId)
    /\ adapters' =
          IF CurrentDevice.fault \in ConstructFaults
          THEN adapters
          ELSE Emplace(adapters,
                       NetworkAdapter(CurrentDevice.netCfgInstanceId,
                                      CurrentDevice.driverDesc,
                                      CurrentDevice.connectionName,
                                      CurrentDevice.deviceInstanceId))
    /\ memberIndex' = memberIndex + 1
    /\ UNCHANGED <<osVars, nsisVars, listenerVars, op, pc, tapHardwareId,
                   handles, classDevsCalls, devInfo, tapAdapters,
                   mullvadAdapter, mullvadGuid, numRemainingAdapters,
                   removalLog, status, what, retAdapter, retDeletion>>

GetTapAdapters ==
    \/ GtaAcquireFail
    \/ GtaAcquire
    \/ GtaEnumFail
    \/ GtaNoMoreItems
    \/ GtaHardwareIdFail
    \/ GtaSkip
    \/ GtaConstruct

\* ------------------------------------------------- Context::getAdapter

\* added.size() > 1: the adapters are logged and an error is thrown
GetAdapterTooMany ==
    /\ pc = "getAdapter:check"
    /\ Cardinality(tapAdapters) > 1
    /\ Throw("Identified more TAP adapters than expected")
    /\ UNCHANGED <<osVars, nsisVars, listenerVars, op, tapHardwareId, handles,
                   classDevsCalls, devInfo, memberIndex, adapters, tapAdapters,
                   mullvadAdapter, mullvadGuid, numRemainingAdapters,
                   removalLog, retAdapter, retDeletion>>

\* return *added.begin() with one adapter in the set
GetAdapterReturn ==
    /\ pc = "getAdapter:check"
    /\ Cardinality(tapAdapters) = 1
    /\ retAdapter' = SetBegin(tapAdapters)
    /\ status' = "returned"
    /\ pc' = "done"
    /\ UNCHANGED <<osVars, nsisVars, listenerVars, op, tapHardwareId, handles,
                   classDevsCalls, devInfo, memberIndex, adapters, tapAdapters,
                   mullvadAdapter, mullvadGuid, numRemainingAdapters,
                   removalLog, what, retDeletion>>

\* return *added.begin() with an empty set: begin() is end(), and reading
\* through it is undefined.  The build either faults, which no C++ handler
\* catches, or copies whatever lies there and returns it.
GetAdapterDerefEnd ==
    /\ pc = "getAdapter:check"
    /\ Cardinality(tapAdapters) = 0
    /\ \/ /\ status' = "crashed"
          /\ retAdapter' = retAdapter
       \/ /\ status' = "returned"
          /\ retAdapter' = NullAdapter
    /\ pc' = "done"
    /\ UNCHANGED <<osVars, nsisVars, listenerVars, op, tapHardwareId, handles,
                   classDevsCalls, devInfo, memberIndex, adapters, tapAdapters,
                   mullvadAdapter, mullvadGuid, numRemainingAdapters,
                   removalLog, what, retDeletion>>

getAdapter ==
    \/ GetAdapterTooMany
    \/ GetAdapterReturn
    \/ GetAdapterDerefEnd

\* ------------------------------------ Context::DeleteOldMullvadAdapter

\* The locals of DeleteOldMullvadAdapter's second pass stay as they are
DelFrame == <<op, tapHardwareId, adapters, tapAdapters, mullvadAdapter,
              mullvadGuid, retAdapter>>

\* FindMullvadAdapter finds nothing: "Mullvad TAP adapter not found"
DelNotFound ==
    /\ pc = "DeleteOldMullvadAdapter:find"
    /\ mullvadAdapter' = FindMullvadAdapter(tapAdapters)
    /\ ~mullvadAdapter'.has_value
    /\ Throw("Mullvad TAP adapter not found")
    /\ UNCHANGED <<osVars, nsisVars, listenerVars, op, tapHardwareId, handles,
                   classDevsCalls, devInfo, memberIndex, adapters, tapAdapters,
                   mullvadGuid, numRemainingAdapters, removalLog, retAdapter,
                   retDeletion>>

\* FindMullvadAdapter finds the adapter: its guid is kept
DelFound ==
    /\ pc = "DeleteOldMullvadAdapter:find"
    /\ mullvadAdapter' = FindMullvadAdapter(tapAdapters)
    /\ mullvadAdapter'.has_value
    /\ mullvadGuid' = mullvadAdapter'.value.guid
    /\ pc' = "DeleteOldMullvadAdapter:acquire"
    /\ UNCHANGED <<osVars, nsisVars, listenerVars, op, tapHardwareId, handles,
                   classDevsCalls, devInfo, memberIndex, adapters, tapAdapters,
                   numRemainingAdapters, removalLog, status, what, retAdapter,
                   retDeletion>>

\* SetupDiGetClassDevsW fails
DelAcquireFail ==
    /\ pc = "DeleteOldMullvadAdapter:acquire"
    /\ classDevsCalls' = classDevsCalls + 1
    /\ Throw("SetupDiGetClassDevs() failed")
    /\ UNCHANGED <<osVars, nsisVars, listenerVars, DelFrame, handles, devInfo,
                   memberIndex, numRemainingAdapters, removalLog, retDeletion>>

\* SetupDiGetClassDevsW succeeds; cleanupDevList is armed
DelAcquire ==
    /\ pc = "DeleteOldMullvadAdapter:acquire"
    /\ classDevsCalls' = classDevsCalls + 1
    /\ handles' = Append(handles, "open")
    /\ devInfo' = Present
    /\ memberIndex' = 0
    /\ numRemainingAdapters' = 0
    /\ pc' = "DeleteOldMullvadAdapter:loop"
    /\ UNCHANGED <<osVars, nsisVars, listenerVars, DelFrame, removalLog,
                   status, what, retDeletion>>

\* An exception leaves the second pass: the handle goes
DelThrow(text) ==
    /\ Throw(text)
    /\ handles' = ScopeDestructor(handles)
    /\ devInfo' = <<>>
    /\ UNCHANGED <<nsisVars, listenerVars, DelFrame, devices, classDevsCalls,
                   memberIndex, numRemainingAdapters, retDeletion>>

\* SetupDiEnumDeviceInfo fails with an error other than ERROR_NO_MORE_ITEMS
DelEnumFail ==
    /\ pc = "DeleteOldMullvadAdapter:loop"
    /\ DelThrow("Error enumerating network adapters")
    /\ UNCHANGED <<removed, removalLog>>

\* numRemainingAdapters > 0, off by one
DeletionResultMoreThanOne(n) ==
    IF n > 1 THEN "SOME_REMAINING_TAP_ADAPTERS"
    ELSE "NO_REMAINING_TAP_ADAPTERS"

\* (numRemainingAdapters > 0) ? SOME_REMAINING : NO_REMAINING
DeletionResult(n) ==
    IF n > 0 THEN "SOME_REMAINING_TAP_ADAPTERS"
    ELSE "NO_REMAINING_TAP_ADAPTERS"

\* ERROR_NO_MORE_ITEMS: the loop ends and the result is returned
DelNoMoreItems ==
    /\ pc = "DeleteOldMullvadAdapter:loop"
    /\ memberIndex >= Len(devInfo)
    /\ retDeletion' = DeletionResult(numRemainingAdapters)
    /\ status' = "returned"
    /\ handles' = ScopeDestructor(handles)
    /\ devInfo' = <<>>
    /\ pc' = "done"
    /\ UNCHANGED <<osVars, nsisVars, listenerVars, DelFrame, classDevsCalls,
                   memberIndex, numRemainingAdapters, removalLog, what>>

\* GetDeviceRegistryStringProperty throws
DelHardwareIdFail ==
    /\ pc = "DeleteOldMullvadAdapter:loop"
    /\ memberIndex < Len(devInfo)
    /\ \E text \in {"SetupDiGetDeviceRegistryPropertyW",
                    "Failed to read device property"} : DelThrow(text)
    /\ UNCHANGED <<removed, removalLog>>

\* The device does not carry the deprecated hardware ID: next device
DelSkip ==
    /\ pc = "DeleteOldMullvadAdapter:loop"
    /\ memberIndex < Len(devInfo)
    /\ ~HardwareIdMatches(CurrentDevice.hardwareId, DEPRECATED_TAP_HARDWARE_ID)
    /\ memberIndex' = memberIndex + 1
    /\ UNCHANGED <<osVars, nsisVars, listenerVars, DelFrame, pc, handles,
                   classDevsCalls, devInfo, numRemainingAdapters, removalLog,
                   status, what, retDeletion>>

\* GetNetCfgInstanceId throws (SetupDiOpenDevRegKey or RegGetValueW)
DelGuidFail ==
    /\ pc = "DeleteOldMullvadAdapter:loop"
    /\ memberIndex < Len(devInfo)
    /\ HardwareIdMatches(CurrentDevice.hardwareId, DEPRECATED_TAP_HARDWARE_ID)
    /\ CurrentDevice.fault = "GetNetCfgInstanceId"
    /\ \E text \in {"SetupDiOpenDevRegKey", "RegGetValueW"} : DelThrow(text)
    /\ UNCHANGED <<removed, removalLog>>

\* A device is removed whatever its NetCfgInstanceId
IsTargetAlways(netCfgInstanceId, guid) == TRUE

\* 0 == GetNetCfgInstanceId(devInfo, devInfoData).compare(mullvadGuid)
IsTarget(netCfgInstanceId, guid) == netCfgInstanceId = guid

\* A deprecated device that is not the target: counted, not removed
DelRemaining ==
    /\ pc = "DeleteOldMullvadAdapter:loop"
    /\ memberIndex < Len(devInfo)
    /\ HardwareIdMatches(CurrentDevice.hardwareId, DEPRECATED_TAP_HARDWARE_ID)
    /\ CurrentDevice.fault # "GetNetCfgInstanceId"
    /\ ~IsTarget(CurrentDevice.netCfgInstanceId, mullvadGuid)
    /\ numRemainingAdapters' = numRemainingAdapters + 1
    /\ memberIndex' = memberIndex + 1
    /\ UNCHANGED <<osVars, nsisVars, listenerVars, DelFrame, pc, handles,
                   classDevsCalls, devInfo, removalLog, status, what,
                   retDeletion>>

\* The target: SetupDiRemoveDevice removes it
DelRemove ==
    /\ pc = "DeleteOldMullvadAdapter:loop"
    /\ memberIndex < Len(devInfo)
    /\ HardwareIdMatches(CurrentDevice.hardwareId, DEPRECATED_TAP_HARDWARE_ID)
    /\ CurrentDevice.fault # "GetNetCfgInstanceId"
    /\ IsTarget(CurrentDevice.netCfgInstanceId, mullvadGuid)
    /\ removalLog' = Append(removalLog, devInfo[memberIndex + 1])
    /\ removed' = removed \cup {devInfo[memberIndex + 1]}
    /\ memberIndex' = memberIndex + 1
    /\ UNCHANGED <<nsisVars, listenerVars, DelFrame, devices, pc, handles,
                   classDevsCalls, devInfo, numRemainingAdapters, status, what,
                   retDeletion>>

\* The target: SetupDiRemoveDevice fails
DelRemoveFail ==
    /\ pc = "DeleteOldMullvadAdapter:loop"
    /\ memberIndex < Len(devInfo)
    /\ HardwareIdMatches(CurrentDevice.hardwareId, DEPRECATED_TAP_HARDWARE_ID)
    /\ CurrentDevice.fault # "GetNetCfgInstanceId"
    /\ IsTarget(CurrentDevice.netCfgInstanceId, mullvadGuid)
    /\ removalLog' = Append(removalLog, devInfo[memberIndex + 1])
    /\ DelThrow("Error removing Mullvad TAP device")
    /\ UNCHANGED removed

DeleteOldMullvadAdapter ==
    \/ DelNotFound
    \/ DelFound
    \/ DelAcquireFail
    \/ DelAcquire
    \/ DelEnumFail
    \/ DelNoMoreItems
    \/ DelHardwareIdFail
    \/ DelSkip
    \/ DelGuidFail
    \/ DelRemaining
    \/ DelRemove
    \/ DelRemoveFail

\* ------------------------------------------- the Context operations, called

\* A caller calls getAdapter()
CallGetAdapter ==
    /\ pc = "idle"
    /\ Enter("getAdapter", TAP_HARDWARE_ID)
    /\ UNCHANGED <<osVars, nsisVars, listenerVars>>

\* A caller calls DeleteOldMullvadAdapter()
CallDeleteOldMullvadAdapter ==
    /\ pc = "idle"
    /\ Enter("DeleteOldMullvadAdapter", DEPRECATED_TAP_HARDWARE_ID)
    /\ UNCHANGED <<osVars, nsisVars, listenerVars>>

\* Any device list; no operation called yet
Init ==
    /\ devices \in DeviceLists(DeviceKinds)
    /\ removed = {}
    /\ CtxInit
    /\ NsisInit
    /\ ListenerIdle

Next ==
    \/ CallGetAdapter
    \/ CallDeleteOldMullvadAdapter
    \/ GetTapAdapters
    \/ getAdapter
    \/ DeleteOldMullvadAdapter

\* One Context operation on any device list
Spec == Init /\ [][Next]_vars

\* ------------------------------------------------------ the NSIS plugin

\* pushstring of a text of the program: a literal or an error text
pushstring(stk, text) ==
    Append(stk, [type |-> "string", str |-> text, wide |-> <<>>, int |-> ""])

\* pushstring of a wide string the model keeps as code units
pushwide(stk, wstr) ==
    Append(stk, [type |-> "string", str |-> "", wide |-> wstr, int |-> ""])

\* pushint of an enumerator
pushint(stk, code) ==
    Append(stk, [type |-> "int", str |-> "", wide |-> <<>>, int |-> code])

\* The catch blocks: the error text, then the error status
PushError(stk, text, code) == pushint(pushstring(stk, text), code)

\* A completed plugin call
Completed(function, code, text) ==
    [function |-> function, status |-> code, text |-> text]

\* The installer may make another call
MayCall == nsis = "idle" /\ Len(history) < MaxCalls

\* The operation has returned to the plugin function: its locals are gone
CtxReturn ==
    /\ op' = "none"
    /\ pc' = "idle"
    /\ tapHardwareId' = <<>>
    /\ handles' = <<>>
    /\ classDevsCalls' = 0
    /\ devInfo' = <<>>
    /\ memberIndex' = 0
    /\ adapters' = {}
    /\ tapAdapters' = {}
    /\ mullvadAdapter' = nullopt(NullAdapter)
    /\ mullvadGuid' = 0
    /\ numRemainingAdapters' = 0
    /\ removalLog' = <<>>
    /\ status' = "none"
    /\ what' = ""
    /\ retAdapter' = NullAdapter
    /\ retDeletion' = "none"

\* Initialize: the context exists, or is made and the module pinned
InitializeSucceeds ==
    /\ MayCall
    /\ IF g_context = "nullptr"
       THEN g_context' = "Context" /\ moduleRefs' = moduleRefs + 100
       ELSE UNCHANGED <<g_context, moduleRefs>>
    /\ stack' = pushint(pushstring(stack, ""), "NsisStatus::SUCCESS")
    /\ history' = Append(history,
                         Completed("Initialize", "NsisStatus::SUCCESS", ""))
    /\ UNCHANGED <<osVars, ctxVars, listenerVars, nsis>>

\* Initialize: new Context throws, g_context is not assigned
InitializeNewThrows ==
    /\ MayCall
    /\ g_context = "nullptr"
    /\ \E text \in {"bad allocation", "Unspecified error"} :
          /\ stack' = PushError(stack, text, "NsisStatus::GENERAL_ERROR")
          /\ history' = Append(history,
                Completed("Initialize", "NsisStatus::GENERAL_ERROR", text))
    /\ UNCHANGED <<osVars, ctxVars, listenerVars, nsis, g_context, moduleRefs>>

\* Initialize: g_context is assigned, then PinDll throws
InitializePinDllThrows ==
    /\ MayCall
    /\ g_context = "nullptr"
    /\ g_context' = "Context"
    /\ stack' = PushError(stack, "Failed to pin plugin module",
                          "NsisStatus::GENERAL_ERROR")
    /\ history' = Append(history,
          Completed("Initialize", "NsisStatus::GENERAL_ERROR",
                    "Failed to pin plugin module"))
    /\ UNCHANGED <<osVars, ctxVars, listenerVars, nsis, moduleRefs>>

\* Deinitialize: delete g_context, push, g_context = nullptr
Deinitialize ==
    /\ MayCall
    /\ g_context' = "nullptr"
    /\ stack' = pushint(pushstring(stack, ""), "NsisStatus::SUCCESS")
    /\ history' = Append(history,
                         Completed("Deinitialize", "NsisStatus::SUCCESS", ""))
    /\ UNCHANGED <<osVars, ctxVars, listenerVars, nsis, moduleRefs>>

\* IdentifyNewAdapter with g_context == nullptr
IdentifyNotInitialized ==
    /\ MayCall
    /\ g_context = "nullptr"
    /\ stack' = PushError(stack,
          "Initialize() function was not called or was not successful",
          "NsisStatus::GENERAL_ERROR")
    /\ history' = Append(history,
          Completed("IdentifyNewAdapter", "NsisStatus::GENERAL_ERROR",
                    "Initialize() function was not called or was not successful"))
    /\ UNCHANGED <<osVars, ctxVars, listenerVars, nsis, g_context, moduleRefs>>

\* IdentifyNewAdapter calls g_context->getAdapter()
IdentifyBegin ==
    /\ MayCall
    /\ g_context # "nullptr"
    /\ nsis' = "IdentifyNewAdapter"
    /\ Enter("getAdapter", TAP_HARDWARE_ID)
    /\ UNCHANGED <<osVars, listenerVars, g_context, moduleRefs, stack, history>>

\* getAdapter is over: the alias and SUCCESS, or the catch block; a fault
\* that no handler catches ends the installer
IdentifyEnd ==
    /\ nsis = "IdentifyNewAdapter"
    /\ pc = "done"
    /\ CtxReturn
    /\ IF status = "crashed"
       THEN nsis' = "crashed" /\ UNCHANGED <<stack, history>>
       ELSE /\ nsis' = "idle"
            /\ IF status = "returned"
               THEN /\ stack' = pushint(pushwide(stack, retAdapter.alias),
                                        "NsisStatus::SUCCESS")
                    /\ history' = Append(history,
                          Completed("IdentifyNewAdapter", "NsisStatus::SUCCESS", ""))
               ELSE /\ stack' = PushError(stack, what, "NsisStatus::GENERAL_ERROR")
                    /\ history' = Append(history,
                          Completed("IdentifyNewAdapter",
                                    "NsisStatus::GENERAL_ERROR", what))
    /\ UNCHANGED <<osVars, listenerVars, g_context, moduleRefs>>

\* RemoveOldMullvadTap: pushstring(L""), then DeleteOldMullvadAdapter()
RemoveBegin ==
    /\ MayCall
    /\ stack' = pushstring(stack, "")
    /\ nsis' = "RemoveOldMullvadTap"
    /\ Enter("DeleteOldMullvadAdapter", DEPRECATED_TAP_HARDWARE_ID)
    /\ UNCHANGED <<osVars, listenerVars, g_context, moduleRefs, history>>

\* The switch of RemoveOldMullvadTap
RemoveOldMullvadTapStatus(result) ==
    CASE result = "NO_REMAINING_TAP_ADAPTERS" ->
            "RemoveOldMullvadTapStatus::SUCCESS_NO_REMAINING_TAP_ADAPTERS"
      [] result = "SOME_REMAINING_TAP_ADAPTERS" ->
            "RemoveOldMullvadTapStatus::SUCCESS_SOME_REMAINING_TAP_ADAPTERS"
      [] OTHER -> "RemoveOldMullvadTapStatus::GENERAL_ERROR"

\* DeleteOldMullvadAdapter is over: the status of its result, or the catch
\* block, which pushes the error text and GENERAL_ERROR
RemoveEnd ==
    /\ nsis = "RemoveOldMullvadTap"
    /\ pc = "done"
    /\ CtxReturn
    /\ nsis' = "idle"
    /\ IF status = "returned"
       THEN /\ stack' = pushint(stack, RemoveOldMullvadTapStatus(retDeletion))
            /\ history' = Append(history,
                  Completed("RemoveOldMullvadTap",
                            RemoveOldMullvadTapStatus(retDeletion), ""))
       ELSE /\ stack' = PushError(stack, what,
                                  "RemoveOldMullvadTapStatus::GENERAL_ERROR")
            /\ history' = Append(history,
                  Completed("RemoveOldMullvadTap",
                            "RemoveOldMullvadTapStatus::GENERAL_ERROR", what))
    /\ UNCHANGED <<osVars, listenerVars, g_context, moduleRefs>>

\* The devices of an installer run; nothing called yet
InitNsis ==
    /\ devices \in DeviceLists(InstallerKinds)
    /\ removed = {}
    /\ CtxInit
    /\ NsisInit
    /\ ListenerIdle

NextNsis ==
    \/ InitializeSucceeds
    \/ InitializeNewThrows
    \/ InitializePinDllThrows
    \/ Deinitialize
    \/ IdentifyNotInitialized
    \/ IdentifyBegin
    \/ IdentifyEnd
    \/ RemoveBegin
    \/ RemoveEnd
    \/ GetTapAdapters
    \/ getAdapter
    \/ DeleteOldMullvadAdapter

\* The installer calls the plugin's functions, one at a time
SpecNsis == InitNsis /\ [][NextNsis]_vars

\* ------------------------------------------- FindMullvadAdapter, applied

\* The aliases of the candidate adapters
CandidateAliases ==
    {baseAlias, AliasUpper, AliasDash0, AliasDash1, AliasDash2, AliasDash9,
     AliasDash10, AliasDashOnly, AliasOther}

\* The sets of at most MaxCandidates adapters, each with a guid of its own
CandidateSets ==
    UNION {{{NetworkAdapter(g, "TAP-Windows Adapter V9", f[g], 100 + g) :
                g \in G} : f \in [G -> CandidateAliases]} :
              G \in SUBSET (1 .. MaxCandidates)}

\* A caller calls FindMullvadAdapter(tapAdapters)
CallFindMullvadAdapter ==
    /\ pc = "FindMullvadAdapter:call"
    /\ mullvadAdapter' = FindMullvadAdapter(tapAdapters)
    /\ status' = "returned"
    /\ pc' = "done"
    /\ UNCHANGED <<osVars, nsisVars, listenerVars, op, tapHardwareId, handles,
                   classDevsCalls, devInfo, memberIndex, adapters, tapAdapters,
                   mullvadGuid, numRemainingAdapters, removalLog, what,
                   retAdapter, retDeletion>>

\* Any candidate set, about to be handed to FindMullvadAdapter
InitFind ==
    /\ devices = <<>>
    /\ removed = {}
    /\ op = "FindMullvadAdapter"
    /\ pc = "FindMullvadAdapter:call"
    /\ tapHardwareId = <<>>
    /\ handles = <<>>
    /\ classDevsCalls = 0
    /\ devInfo = <<>>
    /\ memberIndex = 0
    /\ adapters = {}
    /\ tapAdapters \in CandidateSets
    /\ mullvadAdapter = nullopt(NullAdapter)
    /\ mullvadGuid = 0
    /\ numRemainingAdapters = 0
    /\ removalLog = <<>>
    /\ status = "running"
    /\ what = ""
    /\ retAdapter = NullAdapter
    /\ retDeletion = "none"
    /\ NsisInit
    /\ ListenerIdle

NextFind == CallFindMullvadAdapter

\* FindMullvadAdapter on any candidate set
SpecFind == InitFind /\ [][NextFind]_vars

\* ----------------------------------------------------- SettingsListener

\* parentActivity.asyncDaemon completes
DaemonStarts ==
    /\ setUpPc # "none"
    /\ ~asyncDaemon
    /\ asyncDaemon' = TRUE
    /\ UNCHANGED <<osVars, ctxVars, nsisVars, daemon, onSettingsChange,
                   daemonSettings, settings, setUpPc, setUpJob, destroyPc>>

\* The daemon's settings change; it calls onSettingsChange if one is set,
\* which is handleNewSettings
DaemonNotifies ==
    /\ asyncDaemon
    /\ \E newSettings \in (1 .. MaxSettings) \ {daemonSettings} :
          /\ daemonSettings' = newSettings
          /\ settings' = IF onSettingsChange = "listener" THEN newSettings
                         ELSE settings
    /\ UNCHANGED <<osVars, ctxVars, nsisVars, asyncDaemon, daemon,
                   onSettingsChange, setUpPc, setUpJob, destroyPc>>

\* await() returns the daemon: the job was not cancelled while it waited
SetUpAwait ==
    /\ setUpPc = "await"
    /\ asyncDaemon
    /\ setUpJob = "Active"
    /\ setUpPc' = "store"
    /\ UNCHANGED <<osVars, ctxVars, nsisVars, asyncDaemon, daemon,
                   onSettingsChange, daemonSettings, settings, setUpJob,
                   destroyPc>>

\* await() throws CancellationException: the job was cancelled before the
\* coroutine got past its only suspension point
SetUpCancelled ==
    /\ setUpPc = "await"
    /\ setUpJob = "Cancelling"
    /\ setUpPc' = "cancelled"
    /\ setUpJob' = "Cancelled"
    /\ UNCHANGED <<osVars, ctxVars, nsisVars, asyncDaemon, daemon,
                   onSettingsChange, daemonSettings, settings, destroyPc>>

\* daemon = ...
SetUpStore ==
    /\ setUpPc = "store"
    /\ daemon' = "daemon"
    /\ setUpPc' = "register"
    /\ UNCHANGED <<osVars, ctxVars, nsisVars, asyncDaemon, onSettingsChange,
                   daemonSettings, settings, setUpJob, destroyPc>>

\* daemon.onSettingsChange = { settings -> handleNewSettings(settings) }
SetUpRegister ==
    /\ setUpPc = "register"
    /\ onSettingsChange' = "listener"
    /\ setUpPc' = "fetch"
    /\ UNCHANGED <<osVars, ctxVars, nsisVars, asyncDaemon, daemon,
                   daemonSettings, settings, setUpJob, destroyPc>>

\* fetchInitialSettings(): the settings are taken if none came yet; the
\* block ends, and so does the job
FetchInitialSettings ==
    /\ setUpPc = "fetch"
    /\ settings' = IF settings = 0 THEN daemonSettings ELSE settings
    /\ setUpPc' = "done"
    /\ setUpJob' = IF setUpJob = "Active" THEN "Completed" ELSE "Cancelled"
    /\ UNCHANGED <<osVars, ctxVars, nsisVars, asyncDaemon, daemon,
                   onSettingsChange, daemonSettings, destroyPc>>

\* onDestroy: setUpJob.cancel(), which changes only a job still active
OnDestroyCancel ==
    /\ setUpPc # "none"
    /\ destroyPc = "none"
    /\ setUpJob' = IF setUpJob = "Active" THEN "Cancelling" ELSE setUpJob
    /\ destroyPc' = "check"
    /\ UNCHANGED <<osVars, ctxVars, nsisVars, asyncDaemon, daemon,
                   onSettingsChange, daemonSettings, settings, setUpPc>>

\* onDestroy: if (::daemon.isInitialized).  The field is written by the
\* coroutine's thread with no synchronisation of its own.  cancel() saw
\* the job Completed only if the coroutine had ended before it, and then
\* the write is seen; a write of a coroutine that was still running may
\* or may not be seen.
OnDestroyCheck ==
    /\ destroyPc = "check"
    /\ \E seen \in (IF daemon # "daemon" THEN {FALSE}
                     ELSE IF setUpJob = "Completed" THEN {TRUE}
                     ELSE {TRUE, FALSE}) :
          destroyPc' = IF seen THEN "clear" ELSE "returned"
    /\ UNCHANGED <<osVars, ctxVars, nsisVars, asyncDaemon, daemon,
                   onSettingsChange, daemonSettings, settings, setUpPc,
                   setUpJob>>

\* onDestroy: daemon.onSettingsChange = null
OnDestroyClear ==
    /\ destroyPc = "clear"
    /\ onSettingsChange' = "null"
    /\ destroyPc' = "returned"
    /\ UNCHANGED <<osVars, ctxVars, nsisVars, asyncDaemon, daemon,
                   daemonSettings, settings, setUpPc, setUpJob>>

\* The listener is constructed: setUp() is launched, nothing else happened
InitListener ==
    /\ devices = <<>>
    /\ removed = {}
    /\ CtxInit
    /\ NsisInit
    /\ asyncDaemon \in BOOLEAN
    /\ daemon = "uninitialized"
    /\ onSettingsChange = "null"
    /\ daemonSettings \in 1 .. MaxSettings
    /\ settings = 0
    /\ setUpPc = "await"
    /\ setUpJob = "Active"
    /\ destroyPc = "none"

NextListener ==
    \/ DaemonStarts
    \/ DaemonNotifies
    \/ SetUpAwait
    \/ SetUpCancelled
    \/ SetUpStore
    \/ SetUpRegister
    \/ FetchInitialSettings
    \/ OnDestroyCancel
    \/ OnDestroyCheck
    \/ OnDestroyClear

\* The set-up coroutine, the daemon and onDestroy, interleaved
SpecListener == InitListener /\ [][NextListener]_vars

\* --------------------------------------------- the device list, described

\* The present devices
PresentDevices == DOMAIN devices \ removed

\* Device i carries the deprecated hardware ID
IsLegacy(i) == devices[i].hardwareId = Some(DEPRECATED_TAP_HARDWARE_ID)

\* The record of device i
RecordOf(i) ==
    [guid |-> devices[i].netCfgInstanceId,
     name |-> devices[i].driverDesc,
     alias |-> devices[i].connectionName,
     deviceInstanceId |-> devices[i].deviceInstanceId]

\* The string with its letters A..Z in lower case
LowerCase(s) == [i \in 1 .. Len(s) |-> ToLower(s[i])]

\* "mullvad" and "mullvad-0" .. "mullvad-9"
ProductNames ==
    {<<109, 117, 108, 108, 118, 97, 100>>} \cup
    {<<109, 117, 108, 108, 118, 97, 100, 45, digit>> : digit \in 48 .. 57}

\* No present deprecated device with a complete record has a product alias
NoProductAdapter ==
    \A i \in PresentDevices :
        IsLegacy(i) /\ devices[i].fault = "none"
            => LowerCase(devices[i].connectionName) \notin ProductNames

\* The devices passed to SetupDiRemoveDevice in this call
RemovalRequests == {removalLog[k] : k \in 1 .. Len(removalLog)}

\* ----------------------------------------------------------------- claims

\* C1: DeleteOldMullvadAdapter passes to device removal only devices that
\* carry the deprecated hardware ID and whose NetCfgInstanceId is the guid
\* of the adapter the matcher chose, on every path; when it returns, it has
\* passed every such device, each once, and that is exactly one device.
DeleteRemovesExactlyTheMatch ==
    op = "DeleteOldMullvadAdapter" =>
        /\ \A i \in RemovalRequests :
              /\ mullvadAdapter.has_value
              /\ IsLegacy(i)
              /\ devices[i].netCfgInstanceId = mullvadAdapter.value.guid
        /\ status = "returned" =>
              /\ RemovalRequests =
                    {i \in DOMAIN devices :
                        /\ IsLegacy(i)
                        /\ devices[i].netCfgInstanceId = mullvadAdapter.value.guid}
              /\ Len(removalLog) = 1

\* C1 witness: two deprecated devices, the call returned, one was removed
DeleteRemovedOneOfTwo ==
    /\ op = "DeleteOldMullvadAdapter"
    /\ status = "returned"
    /\ Len(devices) = 2
    /\ IsLegacy(1) /\ IsLegacy(2)
    /\ Len(removalLog) = 1

\* C2: a DeleteOldMullvadAdapter that returns reports SOME_REMAINING exactly
\* when some device with the deprecated hardware ID has a NetCfgInstanceId
\* other than the matched adapter's, and NO_REMAINING otherwise.
DeleteReportsRemaining ==
    (op = "DeleteOldMullvadAdapter" /\ status = "returned") =>
        retDeletion =
            IF \E i \in DOMAIN devices :
                  /\ IsLegacy(i)
                  /\ devices[i].netCfgInstanceId # mullvadAdapter.value.guid
            THEN "SOME_REMAINING_TAP_ADAPTERS"
            ELSE "NO_REMAINING_TAP_ADAPTERS"

\* C2 witness: one deprecated device was left beside the match, and a
\* device without the deprecated hardware ID did not count
DeleteReportedSomeRemaining ==
    /\ op = "DeleteOldMullvadAdapter"
    /\ status = "returned"
    /\ retDeletion = "SOME_REMAINING_TAP_ADAPTERS"
    /\ numRemainingAdapters = 1

\* C3 as claimed: getAdapter returns the record when the enumeration gave
\* exactly one, and otherwise, for no record as for two or more, it throws.
GetAdapterFailsUnlessOne ==
    (op = "getAdapter" /\ pc = "done") =>
        IF Cardinality(tapAdapters) = 1
        THEN status = "returned" /\ {retAdapter} = tapAdapters
        ELSE status = "thrown"

\* C5: the set GetTapAdapters returns holds exactly the records of the
\* present devices whose hardware ID is there and equals the filter, case
\* included, and whose four fields could all be read.
EnumerationReturnsTheMatchingRecords ==
    pc \in {"getAdapter:check", "DeleteOldMullvadAdapter:find"} =>
        tapAdapters =
            {RecordOf(i) : i \in
                {j \in PresentDevices :
                    /\ devices[j].hardwareId = Some(tapHardwareId)
                    /\ devices[j].fault = "none"}}

\* C5 witness: of two devices with the wanted hardware ID one could not
\* be read and the other is the only record returned
EnumerationSkippedOneOfTwo ==
    /\ pc = "getAdapter:check"
    /\ Len(devices) = 2
    /\ devices[1].hardwareId = Some(TAP_HARDWARE_ID)
    /\ devices[2].hardwareId = Some(TAP_HARDWARE_ID)
    /\ devices[1].fault \in ConstructFaults
    /\ tapAdapters = {RecordOf(2)}

\* C6: when the matcher is run on deprecated adapters none of which has a
\* product alias, DeleteOldMullvadAdapter ends at once with "Mullvad TAP
\* adapter not found", having removed nothing and acquired one device list.
DeleteFailsWhenNothingMatches ==
    [][(pc = "DeleteOldMullvadAdapter:find" /\ NoProductAdapter) =>
          /\ pc' = "done"
          /\ status' = "thrown"
          /\ what' = "Mullvad TAP adapter not found"
          /\ removalLog' = <<>>
          /\ removed' = removed
          /\ classDevsCalls' = 1
          /\ handles' = <<"closed">>]_vars

\* C6 witness: a deprecated device was there, with another alias, and the
\* call ended with the error
DeleteFoundNoProductAdapter ==
    /\ op = "DeleteOldMullvadAdapter"
    /\ pc = "done"
    /\ what = "Mullvad TAP adapter not found"
    /\ \E i \in DOMAIN devices : IsLegacy(i) /\ devices[i].fault = "none"

\* C7: no handle is released twice, and once GetTapAdapters or the whole
\* operation has returned or thrown, every handle acquired is released.
HandlesReleasedExactlyOnce ==
    /\ \A h \in DOMAIN handles : handles[h] # "closed twice"
    /\ pc \in {"getAdapter:check", "DeleteOldMullvadAdapter:find",
               "DeleteOldMullvadAdapter:acquire", "done"} =>
          \A h \in DOMAIN handles : handles[h] = "closed"
    /\ Len(handles) <= classDevsCalls

\* C7 witness: both passes acquired a list and the removal failed
RemovalFailedWithTwoHandles ==
    /\ pc = "done"
    /\ what = "Error removing Mullvad TAP device"
    /\ Len(handles) = 2

\* Call k was made while an Initialize had reported SUCCESS and no
\* Deinitialize had been called since
InitializedBefore(k) ==
    \E j \in 1 .. k - 1 :
        /\ history[j].function = "Initialize"
        /\ history[j].status = "NsisStatus::SUCCESS"
        /\ \A m \in j + 1 .. k - 1 : history[m].function # "Deinitialize"

\* C8 as claimed: every completed plugin call has left two entries on the
\* stack, a string and above it the status of the call.
EveryCallLeavesTwoEntries ==
    nsis = "idle" =>
        /\ Len(stack) = 2 * Len(history)
        /\ \A k \in 1 .. Len(history) :
              /\ stack[2 * k - 1].type = "string"
              /\ stack[2 * k].type = "int"
              /\ stack[2 * k].int = history[k].status

\* C9 as claimed: IdentifyNewAdapter enumerates only when an Initialize
\* has reported SUCCESS with no Deinitialize since, and in every other
\* state it reports GENERAL_ERROR with the text about Initialize.
IdentifyEnumeratesOnlyWhenInitialized ==
    /\ nsis = "IdentifyNewAdapter" => InitializedBefore(Len(history) + 1)
    /\ \A k \in 1 .. Len(history) :
          (history[k].function = "IdentifyNewAdapter" /\ ~InitializedBefore(k)) =>
              /\ history[k].status = "NsisStatus::GENERAL_ERROR"
              /\ history[k].text =
                    "Initialize() function was not called or was not successful"

\* The lower-case aliases of the candidates
CandidateNames == {LowerCase(a.alias) : a \in tapAdapters}

\* The suffix digits 0..9 whose product name some candidate has
SuffixesPresent ==
    {i \in 0 .. 9 :
        <<109, 117, 108, 108, 118, 97, 100, 45, 48 + i>> \in CandidateNames}

\* C4: FindMullvadAdapter returns a candidate whose alias is "Mullvad"
\* ignoring case if there is one; otherwise one whose alias is "Mullvad-i"
\* ignoring case for the least i in 0..9 that has one; otherwise nothing.
FindReturnsTheProductAdapter ==
    (op = "FindMullvadAdapter" /\ pc = "done") =>
        IF <<109, 117, 108, 108, 118, 97, 100>> \in CandidateNames
        THEN /\ mullvadAdapter.has_value
             /\ mullvadAdapter.value \in tapAdapters
             /\ LowerCase(mullvadAdapter.value.alias) =
                   <<109, 117, 108, 108, 118, 97, 100>>
        ELSE IF SuffixesPresent # {}
        THEN /\ mullvadAdapter.has_value
             /\ mullvadAdapter.value \in tapAdapters
             /\ LowerCase(mullvadAdapter.value.alias) =
                   <<109, 117, 108, 108, 118, 97, 100, 45,
                     48 + Least(SuffixesPresent)>>
        ELSE ~mullvadAdapter.has_value

\* C4 witness: of "MULLVAD-2", "Other" and "Mullvad-1" the matcher
\* returned "Mullvad-1"
FindChoseTheLowestSuffix ==
    /\ op = "FindMullvadAdapter"
    /\ pc = "done"
    /\ {a.alias : a \in tapAdapters} = {AliasDash2, AliasOther, AliasDash1}
    /\ mullvadAdapter.has_value
    /\ mullvadAdapter.value.alias = AliasDash1

\* C10 as claimed: once onDestroy has returned and the set-up coroutine
\* has finished or was setUpJob, the daemon's callback is null.
ListenerUnregisteredAfterDestroy ==
    (destroyPc = "returned" /\ setUpPc \in {"done", "cancelled"}) =>
        onSettingsChange = "null"

==========================================================================
